---- MODULE Spec2Model ----
(***************************************************************************)
(* Model of the compliance scoring engine of models.validation             *)
(* (src/monitoring/compliance_scorer.py), of the health database           *)
(* (src/monitoring/health_dashboard.py) and of the execution of            *)
(* remediation plans (src/remediation/auto_fix.py).                        *)
(*                                                                         *)
(* Numbers.  The program computes with Python floats.  The model computes  *)
(* with exact fixed-point integers: the real number x is the integer       *)
(* x * One.  Weights are kept in hundredths (0.25 is 25).  The input       *)
(* values are multiples of 0.05, which makes every division below exact,   *)
(* so the model is the exact-rational reading of the code's arithmetic.    *)
(***************************************************************************)
EXTENDS Integers, Sequences, FiniteSets, TLC

VARIABLES pc, validation_result, historical_data, store_writable,
          score, raw_overall, raised, history_file, probe,
          clock, call_log, runs,
          definitions,
          rows, db_result,
          plan, safety_filter, fs, results, position

\* the state of the health database (src/monitoring/health_dashboard.py)
dashboard_vars == <<rows, db_result>>

\* the state of a remediation run (src/remediation/auto_fix.py)
remediation_vars == <<plan, safety_filter, fs, results, position>>

\* the state of the scorer (src/monitoring/compliance_scorer.py)
scorer_vars == <<validation_result, historical_data, store_writable,
                 score, raw_overall, history_file, probe,
                 clock, call_log, runs, definitions>>

vars == <<pc, validation_result, historical_data, store_writable,
          score, raw_overall, raised, history_file, probe,
          clock, call_log, runs,
          definitions, dashboard_vars, remediation_vars>>

\* pc, validation_result, historical_data: the call in progress and its
\*   arguments; store_writable: whether the write of the history file will
\*   succeed; score, raised: what the call hands back; raw_overall: the
\*   overall score before the trend adjustment; history_file: the content of
\*   compliance_history.json; probe: one application of a classification
\*   function; clock: datetime.now() as a logical clock; call_log: the last
\*   two completed calls (arguments and outcome), kept for comparing runs;
\*   runs: the runs of scorers that share the history file concurrently;
\*   definitions: the scorer's metric_definitions, set at construction.
\* rows: the rows of the table repository_health, in insertion order;
\*   db_result: the last query of the health database and what it returned.
\* plan, safety_filter: the arguments of execute_plan; fs: what exists at
\*   each path of the repository; results: the results dict execute_plan
\*   builds; position: how many actions of the plan the loop has handled.

(***************************************************************************)
(* Bounds and program constants                                            *)
(***************************************************************************)
One == 1000000

MaxRuns == 4

MaxCallHist == 2

MaxTrendHist == 6

MaxOverflow == 2

\* rows the health database holds at most
MaxRows == 3

\* actions a remediation plan holds at most
MaxActions == 2

HistoryCap == 100

OverallWindow == 5

CategoryWindow == 3

(***************************************************************************)
(* Python helpers                                                          *)
(***************************************************************************)
\* dict.get(key, default)
Get(d, key, default) == IF key \in DOMAIN d THEN d[key] ELSE default

\* seq[-n:]
LastN(seq, n) ==
    IF Len(seq) <= n THEN seq ELSE SubSeq(seq, Len(seq) - n + 1, Len(seq))

Min(a, b) == IF a <= b THEN a ELSE b

Max(a, b) == IF a >= b THEN a ELSE b

EmptyDict == [k \in {} |-> 0]

RECURSIVE SumSeq(_)
SumSeq(s) == IF s = <<>> THEN 0 ELSE Head(s) + SumSeq(Tail(s))

RECURSIVE Flatten(_)
Flatten(ss) == IF ss = <<>> THEN <<>> ELSE Head(ss) \o Flatten(Tail(ss))

(***************************************************************************)
(* Configuration: _load_metric_definitions                                 *)
(***************************************************************************)
\* iteration order of the metric_definitions dict
CategoryNames ==
    <<"structural_health", "content_health", "process_health",
      "security_health", "evolution_health">>

CategorySet == {CategoryNames[i] : i \in 1..Len(CategoryNames)}

metric_definitions ==
    [structural_health |->
        [category |-> "structural", weight |-> 25,
         thresholds |-> [excellent |-> 950000, good |-> 850000,
                         fair |-> 700000, poor |-> 500000,
                         critical |-> 300000]],
     content_health |->
        [category |-> "content", weight |-> 25,
         thresholds |-> [excellent |-> 900000, good |-> 800000,
                         fair |-> 650000, poor |-> 450000,
                         critical |-> 250000]],
     process_health |->
        [category |-> "process", weight |-> 20,
         thresholds |-> [excellent |-> 850000, good |-> 700000,
                         fair |-> 550000, poor |-> 350000,
                         critical |-> 200000]],
     security_health |->
        [category |-> "security", weight |-> 15,
         thresholds |-> [excellent |-> 900000, good |-> 750000,
                         fair |-> 600000, poor |-> 400000,
                         critical |-> 200000]],
     evolution_health |->
        [category |-> "evolution", weight |-> 15,
         thresholds |-> [excellent |-> 800000, good |-> 650000,
                         fair |-> 500000, poor |-> 350000,
                         critical |-> 200000]]]

\* Configurations the loader may hand to __init__: the built-in one, and the
\* built-in one with a weight raised (the weights then sum to 1.10), with a
\* threshold table that is not decreasing, with a weight entry left out.
OverweightDefinitions ==
    [metric_definitions EXCEPT !["structural_health"].weight = 35]

UnorderedDefinitions ==
    [metric_definitions EXCEPT
       !["content_health"].thresholds.good = 950000]

MissingWeightDefinitions ==
    [metric_definitions EXCEPT
       !["process_health"] =
          [category |-> "process",
           thresholds |-> metric_definitions["process_health"].thresholds]]

Configurations ==
    {metric_definitions, OverweightDefinitions, UnorderedDefinitions,
     MissingWeightDefinitions}

(***************************************************************************)
(* Category scoring                                                        *)
(***************************************************************************)
\* the keys _extract_base_metrics reads, in the order of the returned dict
BaseMetricNames ==
    <<"structural_health", "content_health", "process_health",
      "security_health", "overall_health">>

BaseMetricSet == {BaseMetricNames[i] : i \in 1..Len(BaseMetricNames)}

\* variant: an absent key counts as the neutral 0.5
extract_base_metrics_neutral(vr) ==
    LET health_metrics == Get(vr, "health_metrics", EmptyDict)
    IN  [k \in BaseMetricSet |-> Get(health_metrics, k, One \div 2)]

extract_base_metrics(vr) ==
    LET health_metrics == Get(vr, "health_metrics", EmptyDict)
    IN  [k \in BaseMetricSet |-> Get(health_metrics, k, 0)]

calculate_evolution_health(base_metrics) ==
    LET values == [i \in 1..Len(BaseMetricNames) |->
                      base_metrics[BaseMetricNames[i]]]
        avg_health == IF DOMAIN base_metrics # {}
                      THEN SumSeq(values) \div Cardinality(DOMAIN base_metrics)
                      ELSE One \div 2
        evolution_factor == (8 * One) \div 10 + (avg_health * 2) \div 10
    IN  Min(One, evolution_factor)

\* variant: the base score is scaled by the category's weight
calculate_category_score_weighted(category_name, base_metrics) ==
    LET base_score == IF category_name \in DOMAIN base_metrics
                      THEN base_metrics[category_name]
                      ELSE One \div 2
    IN  IF category_name = "evolution_health"
        THEN calculate_evolution_health(base_metrics)
        ELSE (base_score * metric_definitions[category_name].weight) \div 100

calculate_category_score(category_name, base_metrics) ==
    LET base_score == IF category_name \in DOMAIN base_metrics
                      THEN base_metrics[category_name]
                      ELSE One \div 2
    IN  IF category_name = "evolution_health"
        THEN calculate_evolution_health(base_metrics)
        ELSE base_score

(***************************************************************************)
(* Classification                                                          *)
(***************************************************************************)
\* variant: a cutoff is met only when it is exceeded
determine_status_strict(s, thresholds) ==
    IF s > thresholds.excellent THEN "excellent"
    ELSE IF s > thresholds.good THEN "good"
    ELSE IF s > thresholds.fair THEN "fair"
    ELSE IF s > thresholds.poor THEN "poor"
    ELSE "critical"

determine_status(s, thresholds) ==
    IF s >= thresholds.excellent THEN "excellent"
    ELSE IF s >= thresholds.good THEN "good"
    ELSE IF s >= thresholds.fair THEN "fair"
    ELSE IF s >= thresholds.poor THEN "poor"
    ELSE "critical"

\* variant: the tested band starts at 0.65
determine_compliance_level_shifted(overall_score) ==
    IF overall_score >= 900000 THEN "exemplary"
    ELSE IF overall_score >= 750000 THEN "secure"
    ELSE IF overall_score >= 650000 THEN "tested"
    ELSE IF overall_score >= 450000 THEN "documented"
    ELSE IF overall_score >= 300000 THEN "structured"
    ELSE "basic"

determine_compliance_level(overall_score) ==
    IF overall_score >= 900000 THEN "exemplary"
    ELSE IF overall_score >= 750000 THEN "secure"
    ELSE IF overall_score >= 600000 THEN "tested"
    ELSE IF overall_score >= 450000 THEN "documented"
    ELSE IF overall_score >= 300000 THEN "structured"
    ELSE "basic"

\* variant: the bands are open at their lower bound
calculate_health_grade_open(overall_score) ==
    IF overall_score > 950000 THEN "A+"
    ELSE IF overall_score > 900000 THEN "A"
    ELSE IF overall_score > 850000 THEN "A-"
    ELSE IF overall_score > 800000 THEN "B+"
    ELSE IF overall_score > 750000 THEN "B"
    ELSE IF overall_score > 700000 THEN "B-"
    ELSE IF overall_score > 650000 THEN "C+"
    ELSE IF overall_score > 600000 THEN "C"
    ELSE IF overall_score > 550000 THEN "C-"
    ELSE IF overall_score > 500000 THEN "D+"
    ELSE IF overall_score > 450000 THEN "D"
    ELSE "F"

\* variant: every band starts one hundredth lower
calculate_health_grade_lenient(overall_score) ==
    IF overall_score >= 940000 THEN "A+"
    ELSE IF overall_score >= 890000 THEN "A"
    ELSE IF overall_score >= 840000 THEN "A-"
    ELSE IF overall_score >= 790000 THEN "B+"
    ELSE IF overall_score >= 740000 THEN "B"
    ELSE IF overall_score >= 690000 THEN "B-"
    ELSE IF overall_score >= 640000 THEN "C+"
    ELSE IF overall_score >= 590000 THEN "C"
    ELSE IF overall_score >= 540000 THEN "C-"
    ELSE IF overall_score >= 490000 THEN "D+"
    ELSE IF overall_score >= 440000 THEN "D"
    ELSE "F"

calculate_health_grade(overall_score) ==
    IF overall_score >= 950000 THEN "A+"
    ELSE IF overall_score >= 900000 THEN "A"
    ELSE IF overall_score >= 850000 THEN "A-"
    ELSE IF overall_score >= 800000 THEN "B+"
    ELSE IF overall_score >= 750000 THEN "B"
    ELSE IF overall_score >= 700000 THEN "B-"
    ELSE IF overall_score >= 650000 THEN "C+"
    ELSE IF overall_score >= 600000 THEN "C"
    ELSE IF overall_score >= 550000 THEN "C-"
    ELSE IF overall_score >= 500000 THEN "D+"
    ELSE IF overall_score >= 450000 THEN "D"
    ELSE "F"

(***************************************************************************)
(* Trend analysis and adjustment                                           *)
(***************************************************************************)
TrendOf(first, last, up, down) ==
    IF last * 100 > first * up THEN "improving"
    ELSE IF last * 100 < first * down THEN "declining"
    ELSE "stable"

\* variant: the overall trend compares the oldest and newest of the whole
\* history instead of the last OverallWindow snapshots
analyze_trends_unwindowed(hd, current_score) ==
    IF Len(hd) < 2 THEN ("overall" :> "insufficient_data")
    ELSE
      LET recent_scores == [i \in 1..Len(hd) |-> hd[i].overall_score]
          overall ==
              ("overall" :>
                  TrendOf(recent_scores[1],
                          recent_scores[Len(recent_scores)], 105, 95))
          window == LastN(hd, CategoryWindow)
          category_scores(c) ==
              [i \in 1..Len(window) |->
                  Get(Get(window[i], "category_scores", EmptyDict),
                      c, One \div 2)]
          categories ==
              [c \in CategorySet |->
                  TrendOf(category_scores(c)[1],
                          category_scores(c)[Len(category_scores(c))],
                          100, 100)]
      IN  overall @@ categories

\* variant: without the early return for fewer than 2 snapshots
analyze_trends_unguarded(hd, current_score) ==
    LET recent == LastN(hd, OverallWindow)
        recent_scores == [i \in 1..Len(recent) |-> recent[i].overall_score]
        overall ==
            IF Len(recent_scores) >= 2
            THEN ("overall" :>
                    TrendOf(recent_scores[1],
                            recent_scores[Len(recent_scores)], 105, 95))
            ELSE EmptyDict
        window == LastN(hd, CategoryWindow)
        category_scores(c) ==
            [i \in 1..Len(window) |->
                Get(Get(window[i], "category_scores", EmptyDict),
                    c, One \div 2)]
        present == {c \in CategorySet : Len(category_scores(c)) >= 2}
        categories ==
            [c \in present |->
                TrendOf(category_scores(c)[1],
                        category_scores(c)[Len(category_scores(c))],
                        100, 100)]
    IN  overall @@ categories

\* variant: the category trends look at the last OverallWindow snapshots
analyze_trends_wide(hd, current_score) ==
    IF Len(hd) < 2 THEN ("overall" :> "insufficient_data")
    ELSE
      LET recent == LastN(hd, OverallWindow)
          recent_scores == [i \in 1..Len(recent) |-> recent[i].overall_score]
          overall ==
              ("overall" :>
                  TrendOf(recent_scores[1],
                          recent_scores[Len(recent_scores)], 105, 95))
          category_scores(c) ==
              [i \in 1..Len(recent) |->
                  Get(Get(recent[i], "category_scores", EmptyDict),
                      c, One \div 2)]
          categories ==
              [c \in CategorySet |->
                  TrendOf(category_scores(c)[1],
                          category_scores(c)[Len(category_scores(c))],
                          100, 100)]
      IN  overall @@ categories

analyze_trends(hd, current_score) ==
    IF Len(hd) < 2 THEN ("overall" :> "insufficient_data")
    ELSE
      LET recent == LastN(hd, OverallWindow)
          recent_scores == [i \in 1..Len(recent) |-> recent[i].overall_score]
          overall ==
              IF Len(recent_scores) >= 2
              THEN ("overall" :>
                      TrendOf(recent_scores[1],
                              recent_scores[Len(recent_scores)], 105, 95))
              ELSE EmptyDict
          window == LastN(hd, CategoryWindow)
          category_scores(c) ==
              [i \in 1..Len(window) |->
                  Get(Get(window[i], "category_scores", EmptyDict),
                      c, One \div 2)]
          present == {c \in CategorySet : Len(category_scores(c)) >= 2}
          categories ==
              [c \in present |->
                  TrendOf(category_scores(c)[1],
                          category_scores(c)[Len(category_scores(c))],
                          100, 100)]
      IN  overall @@ categories

\* variant: the multiplier is applied a second time
adjust_overall_twice(overall_score, trend_analysis) ==
    LET trend == Get(trend_analysis, "overall", "stable")
    IN  IF trend = "improving"
        THEN Min(One, (Min(One, (overall_score * 102) \div 100) * 102) \div 100)
        ELSE IF trend = "declining"
        THEN Max(0, (Max(0, (overall_score * 98) \div 100) * 98) \div 100)
        ELSE overall_score

\* variant: the boosted score is not capped at 1.0
adjust_overall_uncapped(overall_score, trend_analysis) ==
    LET trend == Get(trend_analysis, "overall", "stable")
    IN  IF trend = "improving"
        THEN (overall_score * 102) \div 100
        ELSE IF trend = "declining"
        THEN Max(0, (overall_score * 98) \div 100)
        ELSE overall_score

\* variant: a flat 0.02 is added or taken off
adjust_overall_flat(overall_score, trend_analysis) ==
    LET trend == Get(trend_analysis, "overall", "stable")
    IN  IF trend = "improving"
        THEN Min(One, overall_score + 20000)
        ELSE IF trend = "declining"
        THEN Max(0, overall_score - 20000)
        ELSE overall_score

\* variant: the multiplier is five percent instead of two
adjust_overall_five(overall_score, trend_analysis) ==
    LET trend == Get(trend_analysis, "overall", "stable")
    IN  IF trend = "improving"
        THEN Min(One, (overall_score * 105) \div 100)
        ELSE IF trend = "declining"
        THEN Max(0, (overall_score * 95) \div 100)
        ELSE overall_score

adjust_overall(overall_score, trend_analysis) ==
    LET trend == Get(trend_analysis, "overall", "stable")
    IN  IF trend = "improving"
        THEN Min(One, (overall_score * 102) \div 100)
        ELSE IF trend = "declining"
        THEN Max(0, (overall_score * 98) \div 100)
        ELSE overall_score

\* variant: only the metrics that have a trend entry are kept
adjust_metrics_tracked(metrics, trend_analysis) ==
    LET Tracked(m) == m.name \in DOMAIN trend_analysis
        tracked == SelectSeq(metrics, Tracked)
    IN  [i \in 1..Len(tracked) |->
            [tracked[i] EXCEPT !.trend = trend_analysis[tracked[i].name]]]

\* variant: a metric without a trend entry takes the overall trend
adjust_metrics_overall(metrics, trend_analysis) ==
    [i \in 1..Len(metrics) |->
        [metrics[i] EXCEPT
           !.trend = Get(trend_analysis, metrics[i].name,
                         Get(trend_analysis, "overall", "stable"))]]

adjust_metrics(metrics, trend_analysis) ==
    [i \in 1..Len(metrics) |->
        [metrics[i] EXCEPT !.trend = Get(trend_analysis, metrics[i].name, "stable")]]

(***************************************************************************)
(* Recommendations                                                         *)
(***************************************************************************)
\* variant: a poor status is not flagged
generate_recommendations_critical_only(sc) ==
    LET per_metric(m) ==
            IF m.status = "critical"
            THEN <<[kind |-> "critical", metric |-> m.name, value |-> m.value]>>
            ELSE IF m.trend = "declining"
            THEN <<[kind |-> "declining", metric |-> m.name, value |-> m.value]>>
            ELSE <<>>
        low == IF sc.overall_score < One \div 2
               THEN <<[kind |-> "remediation_tools", metric |-> "", value |-> 0],
                      [kind |-> "best_practices", metric |-> "", value |-> 0]>>
               ELSE <<>>
        review == IF sc.health_grade \in {"D", "F"}
                  THEN <<[kind |-> "comprehensive_review", metric |-> "", value |-> 0]>>
                  ELSE <<>>
        praise == IF sc.overall_score * 100 > 85 * One
                  THEN <<[kind |-> "share_as_example", metric |-> "", value |-> 0]>>
                  ELSE <<>>
    IN  Flatten([i \in 1..Len(sc.metrics) |-> per_metric(sc.metrics[i])])
          \o low \o review \o praise

\* variant: the comprehensive review is suggested for grade D+ as well
generate_recommendations_dplus(sc) ==
    LET per_metric(m) ==
            IF m.status = "critical"
            THEN <<[kind |-> "critical", metric |-> m.name, value |-> m.value]>>
            ELSE IF m.status = "poor"
            THEN <<[kind |-> "below_threshold", metric |-> m.name, value |-> m.value]>>
            ELSE IF m.trend = "declining"
            THEN <<[kind |-> "declining", metric |-> m.name, value |-> m.value]>>
            ELSE <<>>
        low == IF sc.overall_score < One \div 2
               THEN <<[kind |-> "remediation_tools", metric |-> "", value |-> 0],
                      [kind |-> "best_practices", metric |-> "", value |-> 0]>>
               ELSE <<>>
        review == IF sc.health_grade \in {"D", "D+", "F"}
                  THEN <<[kind |-> "comprehensive_review", metric |-> "", value |-> 0]>>
                  ELSE <<>>
        praise == IF sc.overall_score * 100 > 85 * One
                  THEN <<[kind |-> "share_as_example", metric |-> "", value |-> 0]>>
                  ELSE <<>>
    IN  Flatten([i \in 1..Len(sc.metrics) |-> per_metric(sc.metrics[i])])
          \o low \o review \o praise

generate_recommendations(sc) ==
    LET per_metric(m) ==
            IF m.status = "critical"
            THEN <<[kind |-> "critical", metric |-> m.name, value |-> m.value]>>
            ELSE IF m.status = "poor"
            THEN <<[kind |-> "below_threshold", metric |-> m.name, value |-> m.value]>>
            ELSE IF m.trend = "declining"
            THEN <<[kind |-> "declining", metric |-> m.name, value |-> m.value]>>
            ELSE <<>>
        low == IF sc.overall_score < One \div 2
               THEN <<[kind |-> "remediation_tools", metric |-> "", value |-> 0],
                      [kind |-> "best_practices", metric |-> "", value |-> 0]>>
               ELSE <<>>
        review == IF sc.health_grade \in {"D", "F"}
                  THEN <<[kind |-> "comprehensive_review", metric |-> "", value |-> 0]>>
                  ELSE <<>>
        praise == IF sc.overall_score * 100 > 85 * One
                  THEN <<[kind |-> "share_as_example", metric |-> "", value |-> 0]>>
                  ELSE <<>>
    IN  Flatten([i \in 1..Len(sc.metrics) |-> per_metric(sc.metrics[i])])
          \o low \o review \o praise

(***************************************************************************)
(* The scoring run, up to the point where the history is saved             *)
(***************************************************************************)
\* variant: the category scores are added up without their weights
weighted_sum_unweighted(category_scores) ==
    SumSeq([i \in 1..Len(CategoryNames) |-> category_scores[CategoryNames[i]]])

\* variant: every category counts the same
weighted_sum_mean(category_scores) ==
    SumSeq([i \in 1..Len(CategoryNames) |-> category_scores[CategoryNames[i]]])
      \div Len(CategoryNames)

\* lines 191-195, over self.metric_definitions
weighted_sum(category_scores) ==
    SumSeq([i \in 1..Len(CategoryNames) |->
              category_scores[CategoryNames[i]]
                * definitions[CategoryNames[i]].weight]) \div 100

build_score(vr, hd) ==
    LET base_metrics == extract_base_metrics(vr)
        category_scores ==
            [c \in CategorySet |-> calculate_category_score(c, base_metrics)]
        metrics ==
            [i \in 1..Len(CategoryNames) |->
                LET name == CategoryNames[i]
                    definition == definitions[name]
                IN  [name |-> name,
                     category |-> definition.category,
                     value |-> category_scores[name],
                     weight |-> definition.weight,
                     status |-> determine_status(category_scores[name],
                                                 definition.thresholds),
                     trend |-> "stable"]]
        overall == weighted_sum(category_scores)
        level == determine_compliance_level(overall)
        grade == calculate_health_grade(overall)
        trend_analysis ==
            IF hd # <<>>
            THEN analyze_trends(hd, overall)
            ELSE EmptyDict
        adjusted ==
            IF hd # <<>> THEN adjust_overall(overall, trend_analysis)
            ELSE overall
        metrics2 ==
            IF hd # <<>> THEN adjust_metrics(metrics, trend_analysis)
            ELSE metrics
        partial ==
            [overall_score |-> adjusted,
             category_scores |-> category_scores,
             metrics |-> metrics2,
             compliance_level |-> level,
             health_grade |-> grade,
             trend_analysis |-> trend_analysis,
             recommendations |-> <<>>]
    IN  [before_adjustment |-> overall,
         result |-> [partial EXCEPT
                       !.recommendations = generate_recommendations(partial)]]

\* variant: the snapshot holds the weighted sum before the adjustment
history_entry_unadjusted(sc, now) ==
    [timestamp |-> now,
     overall_score |-> weighted_sum(sc.category_scores),
     compliance_level |-> sc.compliance_level,
     health_grade |-> sc.health_grade,
     category_scores |-> sc.category_scores,
     trend_analysis |-> sc.trend_analysis]

history_entry(sc, now) ==
    [timestamp |-> now,
     overall_score |-> sc.overall_score,
     compliance_level |-> sc.compliance_level,
     health_grade |-> sc.health_grade,
     category_scores |-> sc.category_scores,
     trend_analysis |-> sc.trend_analysis]

\* variant: the first 100 entries are kept instead of the last 100
save_to_history_head(file, sc, now) ==
    SubSeq(Append(file, history_entry(sc, now)), 1,
           Min(Len(file) + 1, HistoryCap))

save_to_history(file, sc, now) ==
    LastN(Append(file, history_entry(sc, now)), HistoryCap)

(***************************************************************************)
(* Inputs                                                                  *)
(***************************************************************************)
RawValues == {0, One \div 2, One}

\* every health_metrics dict over the keys the scorer reads
HealthMetricsDicts == UNION {[S -> RawValues] : S \in SUBSET BaseMetricSet}

\* validation results: with a health_metrics dict, or without that key
ValidationResults ==
    {EmptyDict} \cup {("health_metrics" :> hm) : hm \in HealthMetricsDicts}

\* snapshots a caller may pass as historical data
HistSnaps ==
    { [overall_score |-> 400000,
       category_scores |-> [c \in CategorySet |-> 500000]],
      [overall_score |-> 420000,
       category_scores |->
          [structural_health |-> 600000, content_health |-> 400000,
           security_health |-> 500000, evolution_health |-> 900000]],
      [overall_score |-> 440000],
      [overall_score |-> 380000,
       category_scores |->
          [structural_health |-> 500000, content_health |-> 500000,
           process_health |-> 600000, security_health |-> 400000,
           evolution_health |-> 800000]] }

Histories(n) == UNION {[1..k -> HistSnaps] : k \in 0..n}

\* the inputs of the runs of the long-lived scorer
RunInputs ==
    { EmptyDict,
      ("health_metrics" :> [k \in BaseMetricSet |-> One]),
      ("health_metrics" :> [structural_health |-> One \div 2,
                            content_health |-> One]) }

\* the inputs of the runs that are analysed against long histories
TrendInputs ==
    { ("health_metrics" :> [k \in BaseMetricSet |-> One]),
      ("health_metrics" :> [k \in BaseMetricSet |-> 0]) }

ProbeScores == {i * (One \div 100) : i \in 0..100}

NoScore == [overall_score |-> 0]

NoProbe == [fn |-> "none"]

\* the repositories whose scoring runs share one working directory
Repos == {"repo_a", "repo_b"}

NoRuns == [r \in Repos |-> [pc |-> "none"]]

\* what a failed write can leave behind: open() raised and the file is
\* untouched, or json.dump raised after open(path, 'w') had truncated it
\* (the next load then fails to parse it and starts from [])
AfterFailedWrite(file) == {file, <<>>}

(***************************************************************************)
(* Health database (src/monitoring/health_dashboard.py)                    *)
(*                                                                         *)
(* A datetime is modelled by its day and its microsecond, the two fields   *)
(* that decide how isoformat() renders it: "DD" when the microsecond is 0, *)
(* "DD.ffffff" otherwise (the year, month, hour, minute and second are     *)
(* fixed-width fields like the day).  Text is a sequence of character      *)
(* codes; SQLite compares TEXT byte by byte, a proper prefix sorting first.*)
(***************************************************************************)
PowersOfTen == <<100000, 10000, 1000, 100, 10, 1>>

TwoDigits(n) == <<48 + (n \div 10), 48 + (n % 10)>>

SixDigits(n) == [i \in 1..6 |-> 48 + ((n \div PowersOfTen[i]) % 10)]

\* datetime.isoformat()
isoformat(dt) ==
    TwoDigits(dt.day)
      \o (IF dt.microsecond = 0 THEN <<>>
          ELSE <<46>> \o SixDigits(dt.microsecond))

\* datetime.fromisoformat()
fromisoformat(text) ==
    [day |-> (text[1] - 48) * 10 + (text[2] - 48),
     microsecond |->
        IF Len(text) = 2 THEN 0
        ELSE SumSeq([i \in 1..6 |-> (text[3 + i] - 48) * PowersOfTen[i]])]

\* datetime - timedelta(days=days)
MinusDays(dt, days) == [dt EXCEPT !.day = @ - days]

\* a < b for TEXT values
RECURSIVE TextLess(_, _)
TextLess(a, b) ==
    IF b = <<>> THEN FALSE
    ELSE IF a = <<>> THEN TRUE
    ELSE IF Head(a) # Head(b) THEN Head(a) < Head(b)
    ELSE TextLess(Tail(a), Tail(b))

\* ORDER BY timestamp DESC
RECURSIVE OrderByTimestampDesc(_)
OrderByTimestampDesc(selected) ==
    IF selected = <<>> THEN <<>>
    ELSE LET first ==
                CHOOSE i \in 1..Len(selected) :
                    \A j \in 1..Len(selected) :
                        ~TextLess(selected[i].timestamp, selected[j].timestamp)
             rest == [k \in 1..(Len(selected) - 1) |->
                         IF k < first THEN selected[k] ELSE selected[k + 1]]
         IN  <<selected[first]>> \o OrderByTimestampDesc(rest)

\* the INSERT of store_health_snapshot; the row keeps, next to its columns,
\* the snapshot it was made from (health), which no query reads
store_health_snapshot(table, health) ==
    Append(table,
           [id |-> Len(table) + 1,
            repo_name |-> health.repo_name,
            timestamp |-> isoformat(health.timestamp),
            health |-> health])

\* variant: the cutoff itself is inside the window
get_repository_history_inclusive(table, repo_name, days, now) ==
    LET cutoff == isoformat(MinusDays(now, days))
        Where(row) == /\ row.repo_name = repo_name
                      /\ ~TextLess(row.timestamp, cutoff)
        selected == OrderByTimestampDesc(SelectSeq(table, Where))
    IN  [i \in 1..Len(selected) |->
            [repo_name |-> selected[i].repo_name,
             timestamp |-> fromisoformat(selected[i].timestamp)]]

get_repository_history(table, repo_name, days, now) ==
    LET cutoff == isoformat(MinusDays(now, days))
        Where(row) == /\ row.repo_name = repo_name
                      /\ TextLess(cutoff, row.timestamp)
        selected == OrderByTimestampDesc(SelectSeq(table, Where))
    IN  [i \in 1..Len(selected) |->
            [repo_name |-> selected[i].repo_name,
             timestamp |-> fromisoformat(selected[i].timestamp)]]

\* SELECT DISTINCT repo_name: the names, in an order SQLite chooses
get_all_repositories(table) ==
    LET names == {table[i].repo_name : i \in 1..Len(table)}
    IN  {out \in [1..Cardinality(names) -> names] :
            \A name \in names : \E i \in DOMAIN out : out[i] = name}

\* inputs of the health database
DateTimes == [day : 9..11, microsecond : {0, 500000}]

NowTimes == {dt \in DateTimes : dt.day = 11}

DaysBack == 0..2

QueriedRepos == Repos \cup {"repo_c"}

(***************************************************************************)
(* Remediation (src/remediation/auto_fix.py)                               *)
(*                                                                         *)
(* The repository is modelled by what exists at the path the actions       *)
(* target and at .remediation_backups: nothing, a file or a directory.     *)
(***************************************************************************)
ActionTypes == {"create_directory", "create_file", "fix_content", "rename"}

SafetyLevels == {"safe", "caution", "risky"}

SafetyFilters == {"safe", "caution", "risky"}

\* plans of up to n actions; an action's description is its place in the plan
Plans(n) ==
    UNION {{p \in [1..k -> [description : 1..k,
                            action_type : ActionTypes,
                            safety_level : SafetyLevels,
                            backup_needed : BOOLEAN]] :
              \A i \in 1..k : p[i].description = i} : k \in 0..n}

Repositories ==
    [target : {"absent", "file", "dir"}, backup_dir : {"absent", "file"}]

\* lines 397-403
allowed_levels(filter) ==
    IF filter = "safe" THEN {"safe"}
    ELSE IF filter = "caution" THEN {"safe", "caution"}
    ELSE {"safe", "caution", "risky"}

\* _create_backup_directory: mkdir(parents=True, exist_ok=True) below
\* .remediation_backups, which fails when that path is a file
create_backup_directory(files) ==
    IF files.backup_dir = "file"
    THEN [raised |-> "NotADirectoryError", fs |-> files]
    ELSE [raised |-> "none", fs |-> [files EXCEPT !.backup_dir = "dir"]]

\* _create_backup: the backup directory, then shutil.copy2 of the target
create_backup(files) ==
    LET made == create_backup_directory(files)
    IN  IF made.raised # "none" THEN made
        ELSE IF files.target = "dir"
        THEN [raised |-> "IsADirectoryError", fs |-> made.fs]
        ELSE made

\* open(target_path, 'w') and write
write_content(files) ==
    IF files.target = "dir"
    THEN [raised |-> "IsADirectoryError", fs |-> files]
    ELSE [raised |-> "none", fs |-> [files EXCEPT !.target = "file"]]

\* _execute_action: the exception it raises, if any, and the repository
\* it leaves
execute_action(action, files) ==
    IF action.action_type = "create_directory"
    THEN IF files.target = "file"
         THEN [raised |-> "FileExistsError", fs |-> files]
         ELSE [raised |-> "none", fs |-> [files EXCEPT !.target = "dir"]]
    ELSE IF action.action_type = "create_file"
    THEN IF files.target # "absent" /\ ~action.backup_needed
         THEN [raised |-> "FileExistsError", fs |-> files]
         ELSE IF files.target # "absent" /\ action.backup_needed
         THEN LET saved == create_backup(files)
              IN  IF saved.raised # "none" THEN saved
                  ELSE write_content(saved.fs)
         ELSE write_content(files)
    ELSE IF action.action_type = "fix_content"
    THEN IF files.target = "absent"
         THEN [raised |-> "FileNotFoundError", fs |-> files]
         ELSE IF action.backup_needed
         THEN LET saved == create_backup(files)
              IN  IF saved.raised # "none" THEN saved
                  ELSE write_content(saved.fs)
         ELSE write_content(files)
    ELSE [raised |-> "none", fs |-> files]

(***************************************************************************)
(* Actions                                                                 *)
(***************************************************************************)
\* a caller invokes calculate_compliance_score on the scorer
Invoke ==
    /\ pc \in {"idle", "done"}
    /\ clock < MaxRuns
    /\ \E vr \in RunInputs, hd \in {<<>>, history_file, historical_data},
          w \in BOOLEAN :
          /\ validation_result' = vr
          /\ historical_data' = hd
          /\ store_writable' = w
    /\ pc' = "called"
    /\ UNCHANGED <<score, raw_overall, raised, history_file, probe,
                   clock, call_log, runs,
                   definitions, dashboard_vars, remediation_vars>>

\* the same call over and over, on a store that works
InvokeSteady ==
    /\ pc \in {"idle", "done"}
    /\ clock < HistoryCap + MaxOverflow
    /\ validation_result' = EmptyDict
    /\ historical_data' = <<>>
    /\ store_writable' = TRUE
    /\ pc' = "called"
    /\ UNCHANGED <<score, raw_overall, raised, history_file, probe,
                   clock, call_log, runs,
                   definitions, dashboard_vars, remediation_vars>>

\* variant: without a history argument the run falls back on the history file
run_score_stored ==
    build_score(validation_result,
                IF historical_data = <<>> THEN history_file
                ELSE historical_data)

\* what the run computes from its arguments (lines 169-209)
run_score == build_score(validation_result, historical_data)

\* whether every definition has the "weight" entry that line 185 reads
HasWeights ==
    \A name \in DOMAIN definitions : "weight" \in DOMAIN definitions[name]

calculate_compliance_score ==
    /\ pc = "called"
    /\ IF HasWeights
       THEN /\ clock' = clock + 1
            /\ raw_overall' = run_score.before_adjustment
            /\ score' = run_score.result
            /\ IF store_writable
               THEN /\ history_file' =
                          save_to_history(history_file, run_score.result,
                                          clock')
                    /\ raised' = "none"
               ELSE /\ history_file' \in AfterFailedWrite(history_file)
                    /\ raised' = "OSError"
       ELSE \* definition["weight"] raises in the category loop
            /\ raised' = "KeyError"
            /\ UNCHANGED <<clock, raw_overall, score, history_file>>
    /\ call_log' =
          LastN(Append(call_log,
                       [validation_result |-> validation_result,
                        historical_data |-> historical_data,
                        score |-> score',
                        raised |-> raised']), 2)
    /\ pc' = "done"
    /\ UNCHANGED <<validation_result, historical_data, store_writable,
                   probe, runs,
                   definitions, dashboard_vars, remediation_vars>>

\* Two scorers, one per repository, run in the same working directory and
\* share compliance_history.json.  _save_to_history is a read-modify-write
\* without a lock: the steps of the two runs interleave freely.
Others == <<pc, validation_result, historical_data, store_writable,
            score, raw_overall, raised, probe, call_log,
            definitions, dashboard_vars, remediation_vars>>

\* lines 169-209 and 394-401: the score and its history entry
Score(r) ==
    /\ runs[r].pc = "start"
    /\ clock' = clock + 1
    /\ runs' = [runs EXCEPT
                  ![r].pc = "scored",
                  ![r].entry =
                      history_entry(
                        build_score(runs[r].validation_result, <<>>).result,
                        clock')]
    /\ UNCHANGED <<Others, history_file>>

\* lines 403-410: load the existing history
Load(r) ==
    /\ runs[r].pc = "scored"
    /\ runs' = [runs EXCEPT ![r].pc = "loaded", ![r].history = history_file]
    /\ UNCHANGED <<Others, history_file, clock>>

\* line 419: open(path, 'w') truncates the file
Open(r) ==
    /\ runs[r].pc = "loaded"
    /\ history_file' = <<>>
    /\ runs' = [runs EXCEPT ![r].pc = "opened"]
    /\ UNCHANGED <<Others, clock>>

\* lines 413-420: append, keep the last 100, dump; the last writer wins
Dump(r) ==
    /\ runs[r].pc = "opened"
    /\ history_file' =
          LastN(Append(runs[r].history, runs[r].entry), HistoryCap)
    /\ runs' = [runs EXCEPT ![r].pc = "done"]
    /\ UNCHANGED <<Others, clock>>

\* the classification functions applied to one score
DetermineStatus ==
    /\ pc = "probe"
    /\ probe.fn = "none"
    /\ probe' = [probe EXCEPT
                   !.fn = "determine_status",
                   !.out = determine_status(
                             probe.score,
                             metric_definitions[probe.category].thresholds)]
    /\ UNCHANGED <<pc, validation_result, historical_data, store_writable,
                   score, raw_overall, raised, history_file,
                   clock, call_log, runs,
                   definitions, dashboard_vars, remediation_vars>>

DetermineComplianceLevel ==
    /\ pc = "probe"
    /\ probe.fn = "none"
    /\ probe' = [probe EXCEPT
                   !.fn = "determine_compliance_level",
                   !.out = determine_compliance_level(probe.score)]
    /\ UNCHANGED <<pc, validation_result, historical_data, store_writable,
                   score, raw_overall, raised, history_file,
                   clock, call_log, runs,
                   definitions, dashboard_vars, remediation_vars>>

CalculateHealthGrade ==
    /\ pc = "probe"
    /\ probe.fn = "none"
    /\ probe' = [probe EXCEPT
                   !.fn = "calculate_health_grade",
                   !.out = calculate_health_grade(probe.score)]
    /\ UNCHANGED <<pc, validation_result, historical_data, store_writable,
                   score, raw_overall, raised, history_file,
                   clock, call_log, runs,
                   definitions, dashboard_vars, remediation_vars>>

\* level and grade of one and the same score, as a run assigns them
\* (lines 197-201)
ClassifyScore ==
    /\ pc = "probe"
    /\ probe.fn = "none"
    /\ probe' = [probe EXCEPT
                   !.fn = "classify",
                   !.out = [compliance_level |->
                               determine_compliance_level(probe.score),
                            health_grade |->
                               calculate_health_grade(probe.score)]]
    /\ UNCHANGED <<pc, validation_result, historical_data, store_writable,
                   score, raw_overall, raised, history_file,
                   clock, call_log, runs,
                   definitions, dashboard_vars, remediation_vars>>

(***************************************************************************)
(* Specifications                                                          *)
(***************************************************************************)
NoQuery == [fn |-> "none"]

NoResults ==
    [executed |-> <<>>, skipped |-> <<>>, errors |-> <<>>, total_actions |-> 0]

\* no health database in use
DashboardIdle ==
    /\ rows = <<>>
    /\ db_result = NoQuery

\* no remediation in progress
RemediationIdle ==
    /\ plan = <<>>
    /\ safety_filter = "safe"
    /\ fs = EmptyDict
    /\ results = NoResults
    /\ position = 0

Idle ==
    /\ definitions = metric_definitions
    /\ DashboardIdle
    /\ RemediationIdle
    /\ score = NoScore
    /\ raw_overall = 0
    /\ raised = "none"
    /\ history_file = <<>>
    /\ probe = NoProbe
    /\ clock = 0
    /\ call_log = <<>>
    /\ runs = NoRuns

\* the scorer after construction; runs are invoked one after the other
Init ==
    /\ pc = "idle"
    /\ validation_result = EmptyDict
    /\ historical_data = <<>>
    /\ store_writable = TRUE
    /\ Idle

Next == Invoke \/ calculate_compliance_score

Spec == Init /\ [][Next]_vars

\* more runs than the history file keeps entries
NextLong == InvokeSteady \/ calculate_compliance_score

SpecLong == Init /\ [][NextLong]_vars

\* two concurrent runs for different repositories
NoEntry == [timestamp |-> 0]

EarlierEntry ==
    history_entry(build_score(EmptyDict, <<>>).result, 0)

InitConc ==
    /\ pc = "idle"
    /\ validation_result = EmptyDict
    /\ historical_data = <<>>
    /\ store_writable = TRUE
    /\ definitions = metric_definitions
    /\ DashboardIdle
    /\ RemediationIdle
    /\ score = NoScore
    /\ raw_overall = 0
    /\ raised = "none"
    /\ probe = NoProbe
    /\ clock = 0
    /\ call_log = <<>>
    /\ history_file \in {<<>>, <<EarlierEntry>>}
    /\ runs \in [Repos -> [pc : {"start"}, validation_result : RunInputs,
                           entry : {NoEntry}, history : {<<>>}]]

NextConc == \E r \in Repos : Score(r) \/ Load(r) \/ Open(r) \/ Dump(r)

SpecConc == InitConc /\ [][NextConc]_vars

\* a scorer under construction: __init__ stores whatever the loader returns
\* (lines 54-58); nothing inspects the weights or the threshold tables
LoadMetricDefinitions ==
    /\ pc = "new"
    /\ \E loaded \in Configurations : definitions' = loaded
    /\ raised' = "none"
    /\ pc' = "idle"
    /\ UNCHANGED <<validation_result, historical_data, store_writable,
                   score, raw_overall, history_file, probe,
                   clock, call_log, runs, dashboard_vars, remediation_vars>>

InitLoad ==
    /\ pc = "new"
    /\ validation_result = EmptyDict
    /\ historical_data = <<>>
    /\ store_writable = TRUE
    /\ definitions = EmptyDict
    /\ DashboardIdle
    /\ RemediationIdle
    /\ score = NoScore
    /\ raw_overall = 0
    /\ raised = "none"
    /\ history_file = <<>>
    /\ probe = NoProbe
    /\ clock = 0
    /\ call_log = <<>>
    /\ runs = NoRuns

NextLoad == LoadMetricDefinitions \/ Invoke \/ calculate_compliance_score

SpecLoad == InitLoad /\ [][NextLoad]_vars

\* the health database: snapshots are stored, then the store is queried
StoreHealthSnapshot ==
    /\ pc = "db"
    /\ db_result = NoQuery
    /\ Len(rows) < MaxRows
    /\ \E repo_name \in Repos, timestamp \in DateTimes :
          rows' = store_health_snapshot(
                    rows, [repo_name |-> repo_name, timestamp |-> timestamp])
    /\ UNCHANGED <<pc, raised, scorer_vars, db_result, remediation_vars>>

GetRepositoryHistory ==
    /\ pc = "db"
    /\ db_result = NoQuery
    /\ \E repo_name \in QueriedRepos, days \in DaysBack, now \in NowTimes :
          db_result' =
              [fn |-> "get_repository_history",
               repo_name |-> repo_name, days |-> days, now |-> now,
               out |-> get_repository_history(rows, repo_name, days, now)]
    /\ UNCHANGED <<pc, raised, scorer_vars, rows, remediation_vars>>

GetAllRepositories ==
    /\ pc = "db"
    /\ db_result = NoQuery
    /\ \E out \in get_all_repositories(rows) :
          db_result' = [fn |-> "get_all_repositories", out |-> out]
    /\ UNCHANGED <<pc, raised, scorer_vars, rows, remediation_vars>>

InitDb ==
    /\ pc = "db"
    /\ validation_result = EmptyDict
    /\ historical_data = <<>>
    /\ store_writable = TRUE
    /\ Idle

NextDb == StoreHealthSnapshot \/ GetRepositoryHistory \/ GetAllRepositories

SpecDb == InitDb /\ [][NextDb]_vars

\* execute_plan up to its loop (lines 385-403): the results dict, the
\* backup directory when some action of the plan asks for a backup
ExecutePlan ==
    /\ pc = "execute_plan"
    /\ results' = [NoResults EXCEPT !.total_actions = Len(plan)]
    /\ position' = 0
    /\ IF \E i \in 1..Len(plan) : plan[i].backup_needed
       THEN LET made == create_backup_directory(fs)
            IN  /\ fs' = made.fs
                /\ raised' = made.raised
                /\ pc' = IF made.raised = "none" THEN "actions" ELSE "raised"
       ELSE /\ pc' = "actions"
            /\ UNCHANGED <<fs, raised>>
    /\ UNCHANGED <<scorer_vars, dashboard_vars, plan, safety_filter>>

\* one turn of the loop over plan.actions (lines 405-420)
HandleAction ==
    /\ pc = "actions"
    /\ position < Len(plan)
    /\ LET action == plan[position + 1]
           outcome == execute_action(action, fs)
       IN  IF action.safety_level \notin allowed_levels(safety_filter)
           THEN /\ results' =
                      [results EXCEPT
                         !.skipped =
                            Append(@, [action |-> action.description,
                                       reason |-> action.safety_level])]
                /\ fs' = fs
           ELSE /\ fs' = outcome.fs
                /\ results' =
                      IF outcome.raised = "none"
                      THEN [results EXCEPT
                              !.executed = Append(@, action.description)]
                      ELSE [results EXCEPT
                              !.errors =
                                 Append(@, [action |-> action.description,
                                            error |-> outcome.raised])]
    /\ position' = position + 1
    /\ UNCHANGED <<pc, raised, scorer_vars, dashboard_vars,
                   plan, safety_filter>>

\* line 422: return results
ReturnResults ==
    /\ pc = "actions"
    /\ position = Len(plan)
    /\ pc' = "returned"
    /\ UNCHANGED <<raised, scorer_vars, dashboard_vars, remediation_vars>>

\* execute_plan called with every plan, filter and repository of the bounds
InitExec ==
    /\ pc = "execute_plan"
    /\ validation_result = EmptyDict
    /\ historical_data = <<>>
    /\ store_writable = TRUE
    /\ definitions = metric_definitions
    /\ DashboardIdle
    /\ score = NoScore
    /\ raw_overall = 0
    /\ raised = "none"
    /\ history_file = <<>>
    /\ probe = NoProbe
    /\ clock = 0
    /\ call_log = <<>>
    /\ runs = NoRuns
    /\ plan \in Plans(MaxActions)
    /\ safety_filter \in SafetyFilters
    /\ fs \in Repositories
    /\ results = NoResults
    /\ position = 0

NextExec == ExecutePlan \/ HandleAction \/ ReturnResults

SpecExec == InitExec /\ [][NextExec]_vars

\* one run on every input of the bounded input sets
InitCall ==
    /\ pc = "called"
    /\ validation_result \in ValidationResults
    /\ historical_data \in Histories(MaxCallHist)
    /\ store_writable \in BOOLEAN
    /\ Idle

SpecCall == InitCall /\ [][calculate_compliance_score]_vars

\* one run against every history of up to MaxTrendHist snapshots
InitTrend ==
    /\ pc = "called"
    /\ validation_result \in TrendInputs
    /\ historical_data \in Histories(MaxTrendHist)
    /\ store_writable = TRUE
    /\ Idle

SpecTrend == InitTrend /\ [][calculate_compliance_score]_vars

\* the classification functions on every score of a grid over [0,1]
InitProbe ==
    /\ pc = "probe"
    /\ validation_result = EmptyDict
    /\ historical_data = <<>>
    /\ store_writable = TRUE
    /\ definitions = metric_definitions
    /\ DashboardIdle
    /\ RemediationIdle
    /\ score = NoScore
    /\ raw_overall = 0
    /\ raised = "none"
    /\ history_file = <<>>
    /\ clock = 0
    /\ call_log = <<>>
    /\ runs = NoRuns
    /\ probe \in [fn : {"none"}, category : CategorySet,
                  score : ProbeScores, out : {"none"}]

NextProbe ==
    \/ DetermineStatus
    \/ DetermineComplianceLevel
    \/ CalculateHealthGrade
    \/ ClassifyScore

SpecProbe == InitProbe /\ [][NextProbe]_vars

(***************************************************************************)
(* Properties                                                              *)
(***************************************************************************)
\* the health_metrics dict of the run's validation result ({} when absent)
GivenMetrics == Get(validation_result, "health_metrics", EmptyDict)

RawCategories ==
    {"structural_health", "content_health", "process_health", "security_health"}

\* the raw score of a category as the claims read it: absent counts as 0.0
Raw(c) == Get(GivenMetrics, c, 0)

\* C1: with the four raw scores in [0,1] and the built-in configuration, the
\* overall score before any trend adjustment lies in [0,1].
C1_OverallInUnitInterval ==
    pc = "done" => (raw_overall >= 0 /\ raw_overall <= One)

C1_Witness ==
    /\ pc = "done"
    /\ \A c \in RawCategories : c \in DOMAIN GivenMetrics /\ Raw(c) = One
    /\ raw_overall = One

\* C2: the pre-adjustment overall score is the sum over the five categories
\* of category score times configured weight (0.25, 0.25, 0.20, 0.15, 0.15)
\* and nothing else.
C2_OverallIsWeightedSum ==
    pc = "done" =>
        raw_overall * 100 =
              25 * score.category_scores["structural_health"]
            + 25 * score.category_scores["content_health"]
            + 20 * score.category_scores["process_health"]
            + 15 * score.category_scores["security_health"]
            + 15 * score.category_scores["evolution_health"]

C2_Witness ==
    /\ pc = "done"
    /\ score.category_scores["structural_health"] = One
    /\ score.category_scores["content_health"] = 0
    /\ score.category_scores["process_health"] = One \div 2
    /\ raw_overall > 0

\* C3: the score of structural, content, process and security is the raw
\* input score unchanged, and 0.0 when the key is absent.
C3_RawScoresVerbatim ==
    pc = "done" =>
        \A c \in RawCategories :
            score.category_scores[c] =
                IF c \in DOMAIN GivenMetrics THEN GivenMetrics[c] ELSE 0

C3_Witness ==
    /\ pc = "done"
    /\ "structural_health" \notin DOMAIN GivenMetrics
    /\ score.category_scores["structural_health"] = 0
    /\ "content_health" \in DOMAIN GivenMetrics
    /\ score.category_scores["content_health"] = One \div 2

\* C4: the evolution score is min(1.0, 0.8 + 0.2 * m), m the mean of the
\* four raw category scores (absent counting 0.0); no other entry of the
\* health metrics takes part.
C4_EvolutionFromFourRaw ==
    pc = "done" =>
        score.category_scores["evolution_health"] =
            Min(One,
                (8 * One) \div 10
                  + ((Raw("structural_health") + Raw("content_health")
                       + Raw("process_health") + Raw("security_health")) * 2)
                      \div 40)

\* C5 as stated: with an empty raw-metrics mapping the run raises no error
\* and all five category scores are 0.0.
C5_Original ==
    (pc = "done" /\ GivenMetrics = EmptyDict) =>
        /\ raised = "none"
        /\ \A c \in CategorySet : score.category_scores[c] = 0

\* C5 amended: with an empty raw-metrics mapping the run raises no error on
\* account of the missing data (only a failed history write raises), the
\* four measured categories score 0.0 and evolution scores 0.8.
C5_EmptyMetricsDefaults ==
    (pc = "done" /\ GivenMetrics = EmptyDict) =>
        /\ raised # "none" => ~store_writable
        /\ \A c \in RawCategories : score.category_scores[c] = 0
        /\ score.category_scores["evolution_health"] = (8 * One) \div 10

C5_Witness ==
    /\ pc = "done"
    /\ validation_result = ("health_metrics" :> EmptyDict)
    /\ raised = "none"
    /\ score.category_scores["evolution_health"] = 800000

StatusOrder == <<"excellent", "good", "fair", "poor", "critical">>

\* C6: the status is the first of excellent, good, fair, poor, critical
\* whose cutoff in the category's own table the score meets, and critical
\* below every cutoff; between the critical and the poor cutoff it is
\* critical; it is always one of the five names.
C6_StatusIsFirstCutoffMet ==
    probe.fn = "determine_status" =>
        LET th == metric_definitions[probe.category].thresholds
            met == {i \in 1..Len(StatusOrder) : probe.score >= th[StatusOrder[i]]}
            first == CHOOSE i \in met : \A j \in met : i <= j
        IN  /\ probe.out = IF met = {} THEN "critical" ELSE StatusOrder[first]
            /\ (probe.score >= th.critical /\ probe.score < th.poor)
                  => probe.out = "critical"
            /\ probe.out \in {"excellent", "good", "fair", "poor", "critical"}

C6_Witness ==
    /\ probe.fn = "determine_status"
    /\ probe.category = "content_health"
    /\ probe.score = 250000
    /\ probe.out = "critical"

\* C7: the compliance level depends on the score alone, and every score in
\* [0,1] has exactly one level: exemplary >= 0.90, secure [0.75, 0.90),
\* tested [0.60, 0.75), documented [0.45, 0.60), structured [0.30, 0.45),
\* basic < 0.30.
C7_ComplianceLevelBands ==
    probe.fn = "determine_compliance_level" =>
        LET s == probe.score
            l == probe.out
        IN  /\ l \in {"exemplary", "secure", "tested", "documented",
                      "structured", "basic"}
            /\ (l = "exemplary") <=> (s >= 900000)
            /\ (l = "secure") <=> (s >= 750000 /\ s < 900000)
            /\ (l = "tested") <=> (s >= 600000 /\ s < 750000)
            /\ (l = "documented") <=> (s >= 450000 /\ s < 600000)
            /\ (l = "structured") <=> (s >= 300000 /\ s < 450000)
            /\ (l = "basic") <=> (s < 300000)

C7_Witness ==
    /\ probe.fn = "determine_compliance_level"
    /\ probe.score = 600000
    /\ probe.out = "tested"

GradeLadder == <<"D", "D+", "C-", "C", "C+", "B-", "B", "B+", "A-", "A", "A+">>

\* C8: the grade is F below 0.45; from 0.45 on the bands D, D+, C-, C, C+,
\* B-, B, B+, A-, A, A+ start at 0.45, 0.50, ..., 0.95, each 0.05 wide and
\* closed at its lower bound, A+ covering [0.95, 1.0].
C8_GradeLadder ==
    probe.fn = "calculate_health_grade" =>
        IF probe.score < 450000
        THEN probe.out = "F"
        ELSE \E k \in 1..Len(GradeLadder) :
                /\ probe.out = GradeLadder[k]
                /\ probe.score >= 450000 + (k - 1) * 50000
                /\ (k < Len(GradeLadder) => probe.score < 450000 + k * 50000)
                /\ probe.score <= One

C8_Witness ==
    /\ probe.fn = "calculate_health_grade"
    /\ probe.score = 500000
    /\ probe.out = "D+"

\* C9: with at least 2 snapshots the overall trend is decided by first, the
\* oldest, and last, the newest overall score among the last 5 snapshots:
\* improving if last > first * 1.05, declining if last < first * 0.95,
\* stable otherwise; nothing else changes it.
C9_OverallTrendFromWindow ==
    (pc = "done" /\ Len(historical_data) >= 2) =>
        LET n == Len(historical_data)
            first == historical_data[IF n > 5 THEN n - 4 ELSE 1].overall_score
            last == historical_data[n].overall_score
        IN  /\ "overall" \in DOMAIN score.trend_analysis
            /\ score.trend_analysis["overall"] =
                  IF last * 100 > first * 105 THEN "improving"
                  ELSE IF last * 100 < first * 95 THEN "declining"
                  ELSE "stable"

\* a history of 6 whose oldest snapshot, outside the window, would have
\* given "declining"
C9_Witness ==
    /\ pc = "done"
    /\ Len(historical_data) = 6
    /\ historical_data[1].overall_score = 440000
    /\ historical_data[2].overall_score = 400000
    /\ historical_data[4].overall_score = 380000
    /\ historical_data[6].overall_score = 400000
    /\ score.trend_analysis["overall"] = "stable"

\* C10 as stated: with 0 or 1 snapshots the trend analysis is exactly
\* {"overall": "insufficient_data"}.
C10_Original ==
    (pc = "done" /\ Len(historical_data) < 2) =>
        score.trend_analysis = ("overall" :> "insufficient_data")

\* C10 amended: with exactly 1 snapshot the trend analysis is exactly
\* {"overall": "insufficient_data"}; with no snapshot it is empty.
C10_InsufficientData ==
    pc = "done" =>
        /\ Len(historical_data) = 1 =>
              score.trend_analysis = ("overall" :> "insufficient_data")
        /\ Len(historical_data) = 0 => score.trend_analysis = EmptyDict

C10_Witness ==
    /\ pc = "done"
    /\ Len(historical_data) = 1
    /\ DOMAIN score.trend_analysis = {"overall"}
    /\ score.trend_analysis["overall"] = "insufficient_data"

\* the score a snapshot records for a category; a snapshot that does not
\* record it counts as 0.5
SnapshotCategoryScore(entry, c) ==
    Get(Get(entry, "category_scores", EmptyDict), c, One \div 2)

\* C11: with at least 2 snapshots the trend analysis has a key for each of
\* the five categories, and the category's trend compares the oldest and
\* the newest of its scores among the last 3 snapshots without tolerance.
C11_CategoryTrendsFromWindow ==
    (pc = "done" /\ Len(historical_data) >= 2) =>
        \A c \in CategorySet :
            LET n == Len(historical_data)
                oldest == SnapshotCategoryScore(
                            historical_data[IF n > 3 THEN n - 2 ELSE 1], c)
                newest == SnapshotCategoryScore(historical_data[n], c)
            IN  /\ c \in DOMAIN score.trend_analysis
                /\ score.trend_analysis[c] =
                      IF newest > oldest THEN "improving"
                      ELSE IF newest < oldest THEN "declining"
                      ELSE "stable"

\* a history of 4 whose oldest snapshot, outside the window of 3, records a
\* higher structural score than the newest
C11_Witness ==
    /\ pc = "done"
    /\ Len(historical_data) = 4
    /\ SnapshotCategoryScore(historical_data[1], "structural_health") = 600000
    /\ SnapshotCategoryScore(historical_data[2], "structural_health") = 500000
    /\ SnapshotCategoryScore(historical_data[4], "structural_health") = 500000
    /\ score.trend_analysis["structural_health"] = "stable"
    /\ score.trend_analysis["process_health"] \in {"improving", "declining"}

\* C12: the adjustment is applied exactly once to the just-computed overall
\* score w: the returned score is min(1.0, w * 1.02) when the overall trend
\* is improving, max(0.0, w * 0.98) when declining, and w when the trend is
\* stable, insufficient_data or absent.
C12_AdjustedOnce ==
    pc = "done" =>
        LET w == raw_overall
            t == Get(score.trend_analysis, "overall", "absent")
        IN  score.overall_score =
                IF t = "improving" THEN Min(One, (w * 102) \div 100)
                ELSE IF t = "declining" THEN Max(0, (w * 98) \div 100)
                ELSE w

C12_Witness ==
    /\ pc = "done"
    /\ Len(historical_data) = 2
    /\ score.trend_analysis["overall"] = "improving"
    /\ raw_overall = 120000
    /\ score.overall_score = 122400

\* C13: for raw scores in [0,1] and every history, the trend-adjusted
\* overall score that is returned lies in [0,1].
C13_AdjustedInUnitInterval ==
    pc = "done" => (score.overall_score >= 0 /\ score.overall_score <= One)

C13_Witness ==
    /\ pc = "done"
    /\ Get(score.trend_analysis, "overall", "absent") = "improving"
    /\ raw_overall = One
    /\ score.overall_score = One

IsStatusFlag(r) == r.kind \in {"critical", "below_threshold"}

IsFlaggedStatus(m) == m.status \in {"critical", "poor"}

\* C14: in configuration order, every metric whose status is critical
\* contributes a CRITICAL recommendation and every metric whose status is
\* poor a below-threshold recommendation; with all four raw scores 0.0 the
\* recommendations hold a critical flag for each of the four categories.
C14_StatusFlags ==
    pc = "done" =>
        LET flags == SelectSeq(score.recommendations, IsStatusFlag)
            flagged == SelectSeq(score.metrics, IsFlaggedStatus)
        IN  /\ Len(flags) = Len(flagged)
            /\ \A k \in 1..Len(flagged) :
                  /\ flags[k].metric = flagged[k].name
                  /\ flags[k].kind =
                        IF flagged[k].status = "critical" THEN "critical"
                        ELSE "below_threshold"
            /\ (\A c \in RawCategories : Raw(c) = 0) =>
                  \A c \in RawCategories :
                     \E k \in 1..Len(score.recommendations) :
                        /\ score.recommendations[k].kind = "critical"
                        /\ score.recommendations[k].metric = c

C14_Witness ==
    /\ pc = "done"
    /\ \A c \in RawCategories : c \in DOMAIN GivenMetrics /\ Raw(c) = 0
    /\ \A i \in 1..4 :
          /\ score.recommendations[i].kind = "critical"
          /\ score.recommendations[i].metric = CategoryNames[i]

\* C15: the declining-trend rule is independent of the status: every
\* metric whose trend is declining contributes an investigate
\* recommendation, also when it is critical or poor.
C15_DecliningAlwaysFlagged ==
    pc = "done" =>
        \A i \in 1..Len(score.metrics) :
            score.metrics[i].trend = "declining" =>
                \E k \in 1..Len(score.recommendations) :
                    /\ score.recommendations[k].kind = "declining"
                    /\ score.recommendations[k].metric = score.metrics[i].name

IsGlobal(r) == r.metric = ""

KindsOf(recs) == [i \in 1..Len(recs) |-> recs[i].kind]

\* C16: after the per-metric recommendations the global rules append, in
\* this order: two process-improvement suggestions iff the returned overall
\* score < 0.5, one comprehensive-review suggestion iff the grade is D or F,
\* one positive-reinforcement suggestion iff the returned overall score is
\* > 0.85; nothing is deduplicated or reordered.
C16_GlobalRulesInOrder ==
    pc = "done" =>
        LET recs == score.recommendations
            globals == SelectSeq(recs, IsGlobal)
            n == Len(recs) - Len(globals)
            expected ==
                (IF score.overall_score * 2 < One
                 THEN <<"remediation_tools", "best_practices">> ELSE <<>>)
                \o (IF score.health_grade = "D" \/ score.health_grade = "F"
                    THEN <<"comprehensive_review">> ELSE <<>>)
                \o (IF score.overall_score * 100 > 85 * One
                    THEN <<"share_as_example">> ELSE <<>>)
        IN  /\ KindsOf(globals) = expected
            /\ \A i \in 1..Len(recs) : IsGlobal(recs[i]) <=> i > n

\* graded D+ before a declining trend took the returned score below 0.5:
\* the process suggestions without the review
C16_Witness ==
    /\ pc = "done"
    /\ score.health_grade = "D+"
    /\ score.overall_score * 2 < One
    /\ Len(score.recommendations) >= 2
    /\ score.recommendations[Len(score.recommendations)].kind = "best_practices"

C19_ScoreReturnedDespiteStoreFailure ==
    (pc = "done" /\ ~store_writable) => raised = "none"

\* C20: when the runs for two different repositories interleave their reads
\* and writes of the store, both complete and the store then holds the
\* snapshots of both.
C20_BothSnapshotsKept ==
    (\A r \in Repos : runs[r].pc = "done") =>
        \A r \in Repos :
            \E i \in 1..Len(history_file) : history_file[i] = runs[r].entry

\* C22 as stated (Scenario A): with the built-in weights, no history and an
\* input holding exactly the four raw scores, each 1.0, the run returns
\* evolution 1.0, overall exactly 1.0, level exemplary and grade A+.
FourRawOnes ==
    ("health_metrics" :>
        [structural_health |-> One, content_health |-> One,
         process_health |-> One, security_health |-> One])

C22_ScenarioA ==
    (/\ pc = "done"
     /\ validation_result = FourRawOnes
     /\ historical_data = <<>>)
        => /\ score.category_scores["evolution_health"] = One
           /\ score.overall_score = One
           /\ score.compliance_level = "exemplary"
           /\ score.health_grade = "A+"

\* C23: every score carries category_scores with exactly the five category
\* keys and a metrics list with exactly one metric per category, in
\* configuration order, whose value is the category_scores entry of the
\* same name.
C23_MetricsMatchCategories ==
    pc = "done" =>
        /\ DOMAIN score.category_scores = CategorySet
        /\ Len(score.metrics) = Len(CategoryNames)
        /\ \A i \in 1..Len(score.metrics) :
              /\ score.metrics[i].name = CategoryNames[i]
              /\ score.metrics[i].value =
                    score.category_scores[score.metrics[i].name]

\* a run on a partial input against a history of one snapshot
C23_Witness ==
    /\ pc = "done"
    /\ raised = "none"
    /\ Len(historical_data) = 1
    /\ DOMAIN validation_result = {"health_metrics"}
    /\ DOMAIN validation_result["health_metrics"] = {"content_health"}
    /\ score.metrics[2].name = "content_health"
    /\ score.metrics[2].value = One \div 2
    /\ score.metrics[3].value = 0

\* C26: classification precedes adjustment.  The level and the grade are
\* those of the pre-adjustment weighted sum, the returned overall_score is
\* that sum after the trend adjustment, and the two differ by at most two
\* percent of the pre-adjustment sum.
C26_ClassifiedBeforeAdjustment ==
    pc = "done" =>
        LET w == raw_overall
            returned == score.overall_score
            trend == Get(score.trend_analysis, "overall", "stable")
        IN  /\ w = weighted_sum(score.category_scores)
            /\ score.compliance_level = determine_compliance_level(w)
            /\ score.health_grade = calculate_health_grade(w)
            /\ trend = "improving" => returned = Min(One, (w * 102) \div 100)
            /\ trend = "declining" => returned = Max(0, (w * 98) \div 100)
            /\ trend \notin {"improving", "declining"} => returned = w
            /\ (returned - w) * 100 <= 2 * w
            /\ (w - returned) * 100 <= 2 * w

\* the returned grade is not the grade of the returned score
C26_Witness ==
    /\ pc = "done"
    /\ raised = "none"
    /\ score.overall_score < raw_overall
    /\ score.health_grade # calculate_health_grade(score.overall_score)
    /\ score.health_grade = calculate_health_grade(raw_overall)

\* C27: after a run with a non-empty history every metric's trend is the
\* trend_analysis entry of the metric's category when there is one and
\* "stable" when there is none (a history of one snapshot), never
\* "insufficient_data"; with no history every trend stays "stable".
C27_MetricTrends ==
    pc = "done" =>
        \A i \in 1..Len(score.metrics) :
            LET metric == score.metrics[i]
            IN  /\ metric.trend # "insufficient_data"
                /\ IF historical_data # <<>>
                      /\ metric.name \in DOMAIN score.trend_analysis
                   THEN metric.trend = score.trend_analysis[metric.name]
                   ELSE metric.trend = "stable"

\* a history of one snapshot: the overall entry says insufficient_data, the
\* metrics stay stable
C27_Witness ==
    /\ pc = "done"
    /\ raised = "none"
    /\ Len(historical_data) = 1
    /\ score.trend_analysis = ("overall" :> "insufficient_data")
    /\ \A i \in 1..Len(score.metrics) : score.metrics[i].trend = "stable"

\* a history of two snapshots: the metrics carry their categories' trends
C27_WitnessTracked ==
    /\ pc = "done"
    /\ Len(historical_data) = 2
    /\ score.metrics[1].trend = "improving"
    /\ score.metrics[2].trend = "declining"
    /\ score.trend_analysis["structural_health"] = "improving"

\* C29: the level and the grade of a score agree: exemplary iff A+ or A,
\* secure iff A-, B+ or B, tested iff B-, C+ or C, documented iff C-, D+ or
\* D, structured or basic only with F; and neither the level nor the grade
\* of a lower score ranks above that of a higher score.
LevelOrder ==
    <<"basic", "structured", "documented", "tested", "secure", "exemplary">>

GradeOrder == <<"F">> \o GradeLadder

RankIn(order, x) == CHOOSE i \in 1..Len(order) : order[i] = x

C29_LevelGradeConsistent ==
    probe.fn = "classify" =>
        LET level == probe.out.compliance_level
            grade == probe.out.health_grade
        IN  /\ level = "exemplary" <=> grade \in {"A+", "A"}
            /\ level = "secure" <=> grade \in {"A-", "B+", "B"}
            /\ level = "tested" <=> grade \in {"B-", "C+", "C"}
            /\ level = "documented" <=> grade \in {"C-", "D+", "D"}
            /\ level \in {"structured", "basic"} => grade = "F"
            /\ \A lower \in ProbeScores :
                  lower <= probe.score =>
                    /\ RankIn(LevelOrder, determine_compliance_level(lower))
                          <= RankIn(LevelOrder, level)
                    /\ RankIn(GradeOrder, calculate_health_grade(lower))
                          <= RankIn(GradeOrder, grade)

\* the lowest score of the tested band
C29_Witness ==
    /\ probe.fn = "classify"
    /\ probe.score = 600000
    /\ probe.out.compliance_level = "tested"
    /\ probe.out.health_grade = "C"

\* C25: a scoring run that completes appends exactly one snapshot to the
\* history file, and the snapshot's overall_score (the adjusted one),
\* compliance_level, health_grade, category_scores and trend_analysis are
\* those of the score the run returns.
C25_SnapshotMatchesScore ==
    [][(pc = "called" /\ pc' = "done" /\ raised' = "none") =>
          LET old == history_file
              new == history_file'
              snapshot == new[Len(new)]
              kept == Len(new) - 1
          IN  /\ Len(new) = Min(Len(old) + 1, HistoryCap)
              /\ \A i \in 1..kept : new[i] = old[Len(old) - kept + i]
              /\ snapshot.timestamp = clock'
              /\ snapshot.overall_score = score'.overall_score
              /\ snapshot.compliance_level = score'.compliance_level
              /\ snapshot.health_grade = score'.health_grade
              /\ snapshot.category_scores = score'.category_scores
              /\ snapshot.trend_analysis = score'.trend_analysis]_vars

\* the third run was adjusted upwards; its snapshot holds the adjusted score
C25_Witness ==
    /\ pc = "done"
    /\ raised = "none"
    /\ Len(history_file) = 3
    /\ Len(historical_data) = 2
    /\ score.overall_score > raw_overall
    /\ history_file[3].timestamp = clock
    /\ history_file[3].overall_score = score.overall_score
    /\ history_file[3].trend_analysis["overall"] = "improving"

\* C28: over runs whose history is the list of snapshots written by the
\* earlier runs, every returned overall_score is w, min(1.0, 1.02 w) or
\* max(0.0, 0.98 w), where w is that run's own weighted sum of its category
\* scores: an adjustment stored by an earlier run is never applied again.
C28_AdjustedFromOwnSum ==
    pc = "done" =>
        LET w == weighted_sum(score.category_scores)
        IN  /\ raw_overall = w
            /\ score.overall_score \in
                  {w, Min(One, (w * 102) \div 100), Max(0, (w * 98) \div 100)}

\* the fourth run is adjusted, and so was the third, whose adjusted score is
\* in the history the fourth run reads
C28_Witness ==
    /\ pc = "done"
    /\ raised = "none"
    /\ Len(history_file) = 4
    /\ historical_data = SubSeq(history_file, 1, 3)
    /\ history_file[3].overall_score
          # weighted_sum(history_file[3].category_scores)
    /\ score.overall_score # raw_overall
    /\ score.overall_score # history_file[3].overall_score

\* C21 as stated: a configuration whose five weights do not sum to 1.0, or
\* that lacks a weight, or that has a threshold table not strictly
\* decreasing, is rejected with a configuration error when the scorer loads
\* it, before any score is computed with it.
StrictlyDecreasing(thresholds) ==
    \A i \in 1..(Len(StatusOrder) - 1) :
        thresholds[StatusOrder[i]] > thresholds[StatusOrder[i + 1]]

ValidConfiguration(configuration) ==
    /\ DOMAIN configuration = CategorySet
    /\ \A name \in CategorySet :
          /\ "weight" \in DOMAIN configuration[name]
          /\ StrictlyDecreasing(configuration[name].thresholds)
    /\ SumSeq([i \in 1..Len(CategoryNames) |->
                 configuration[CategoryNames[i]].weight]) = 100

Later(a, b) ==
    \/ a.day > b.day
    \/ (a.day = b.day /\ a.microsecond > b.microsecond)

Occurrences(seq, x) == Cardinality({i \in 1..Len(seq) : seq[i] = x})

C24_HistoryAndRepositories ==
    /\ db_result.fn = "get_repository_history" =>
          LET out == db_result.out
              cutoff == MinusDays(db_result.now, db_result.days)
              stored == [i \in 1..Len(rows) |-> rows[i].health]
              wanted ==
                  {h \in {stored[i] : i \in 1..Len(stored)} :
                      /\ h.repo_name = db_result.repo_name
                      /\ Later(h.timestamp, cutoff)}
          IN  /\ \A i \in 1..Len(out) :
                    /\ out[i] \in wanted
                    /\ out[i].repo_name = db_result.repo_name
              /\ \A h \in wanted : Occurrences(out, h) = Occurrences(stored, h)
              /\ \A i \in 1..Len(out) : \A j \in (i + 1)..Len(out) :
                    ~Later(out[j].timestamp, out[i].timestamp)
    /\ db_result.fn = "get_all_repositories" =>
          LET out == db_result.out
              names == {rows[i].repo_name : i \in 1..Len(rows)}
          IN  /\ \A i \in 1..Len(out) : out[i] \in names
              /\ \A name \in names : Occurrences(out, name) = 1

\* three snapshots of two repositories: of repo_a's two, the one stamped
\* exactly at the cutoff is left out, as is repo_b's later one
C24_Witness ==
    /\ db_result.fn = "get_repository_history"
    /\ db_result.repo_name = "repo_a"
    /\ db_result.days = 1
    /\ db_result.now = [day |-> 11, microsecond |-> 500000]
    /\ Len(rows) = 3
    /\ rows[1].health =
          [repo_name |-> "repo_a",
           timestamp |-> [day |-> 10, microsecond |-> 500000]]
    /\ rows[2].health =
          [repo_name |-> "repo_b",
           timestamp |-> [day |-> 11, microsecond |-> 0]]
    /\ rows[3].health =
          [repo_name |-> "repo_a",
           timestamp |-> [day |-> 11, microsecond |-> 0]]
    /\ db_result.out = <<rows[3].health>>

\* two snapshots of one repository come back newest first, the one without
\* a fractional part after the cutoff that has one
C24_WitnessNewestFirst ==
    /\ db_result.fn = "get_repository_history"
    /\ db_result.repo_name = "repo_b"
    /\ Len(rows) = 3
    /\ Len(db_result.out) = 2
    /\ rows[1].repo_name = "repo_b"
    /\ rows[3].repo_name = "repo_b"
    /\ rows[2].repo_name = "repo_a"
    /\ db_result.out = <<rows[3].health, rows[1].health>>
    /\ rows[3].health.timestamp # rows[1].health.timestamp
    /\ MinusDays(db_result.now, db_result.days).microsecond = 500000
    /\ rows[1].health.timestamp.microsecond = 0

\* both repositories are listed once although one has two snapshots
C24_WitnessRepositories ==
    /\ db_result.fn = "get_all_repositories"
    /\ Len(rows) = 3
    /\ Len(db_result.out) = 2
    /\ rows[1].repo_name = rows[3].repo_name

\* C30 as stated: for every plan and safety filter, execute_plan handles
\* each action exactly once, in plan order, placing it in exactly one of
\* executed, skipped and errors, whose sizes sum to total_actions; an action
\* above the filter is skipped and never executed; an action that raises is
\* recorded in errors without stopping the actions after it.
Handled(list, i) ==
    Cardinality({k \in 1..Len(list) : list[k] = i})

InPlanOrder(list) ==
    \A k \in 1..Len(list) : \A m \in (k + 1)..Len(list) : list[k] < list[m]

C30_EveryActionHandledOnce ==
    pc \in {"returned", "raised"} =>
        LET executed == results.executed
            skipped == [k \in 1..Len(results.skipped) |->
                           results.skipped[k].action]
            errors == [k \in 1..Len(results.errors) |->
                          results.errors[k].action]
        IN  /\ results.total_actions = Len(plan)
            /\ Len(executed) + Len(skipped) + Len(errors)
                  = results.total_actions
            /\ \A i \in 1..Len(plan) :
                  /\ Handled(executed, i) + Handled(skipped, i)
                        + Handled(errors, i) = 1
                  /\ plan[i].safety_level \notin allowed_levels(safety_filter)
                        <=> Handled(skipped, i) = 1
            /\ InPlanOrder(executed)
            /\ InPlanOrder(skipped)
            /\ InPlanOrder(errors)

====
